---- MODULE Spec2Model ----
(***************************************************************************)
(* A model of decord's FFMPEG video reader (src/decoder/ffmpeg.cpp):       *)
(* FrameTransform, FFMPEGVideoReader's constructor, SetVideoStream,        *)
(* QueryStreams, NextFrame and GetSwsContext.  Spec is the reader and its  *)
(* callers, SpecFT the construction of a FrameTransform on its own.        *)
(*                                                                         *)
(* The container's header (streams, the codec's output delay and the       *)
(* stream av_find_best_stream prefers) is chosen in Init and never         *)
(* changes; its packets become known as av_read_frame delivers them        *)
(* (read), until it reports the end of the file (eof).  Stream indexes are *)
(* 0-based as in the code: stream i is container.streams[i + 1].           *)
(*                                                                         *)
(* LOG(FATAL) and a failed CHECK throw dmlc::Error (dmlc's default): the   *)
(* call ends where it is and the fields keep what was assigned so far.     *)
(* Undefined behaviour is a choice among the outcomes a build can show.    *)
(***************************************************************************)
EXTENDS Integers, Sequences, FiniteSets, TLC

VARIABLES
    container,      \* the media file's header: [streams, delay, best]
    read,           \* the packets av_read_frame has delivered so far, in file order
    eof,            \* av_read_frame has reported the end of the file
    status,         \* "new" | "ready" | "failed" (constructor threw) | "crashed"
    fmt_ctx_,       \* NULL or [pos]: the opened container and its read position
    codecs_,        \* per stream: the decoder handle (a codec name) or NULL
    dec_ctx_,       \* NULL or the decoder context
    actv_stm_idx_,  \* the active stream index, -1 when unset
    frame_,         \* NULL or the frame buffer [pic]
    pkt_,           \* NULL or the packet buffer [payload]
    sws_ctx_map_,   \* FrameTransform -> SwsContext
    allocs,         \* decoder contexts allocated so far (their ids), none is ever freed
    out,            \* the caller's output array: "unwritten" or what was converted into it
    ret,            \* the last call: [op, arg, how, val], how it ended ("returned",
                    \* "threw", "crashed"; "called": it has yet to run) and the value
                    \* it returned
    n_true,         \* the number of NextFrame calls that returned true
    n_err,          \* the number of packets the decoder answered with an error
    sent,           \* the packet positions handed to avcodec_decode_video2, in order
    requested,      \* the descriptors GetSwsContext was called with
    n_sws,          \* the number of sws_getContext invocations
    n_set           \* the number of SetVideoStream calls after construction

vars == <<container, read, eof, status, fmt_ctx_, codecs_, dec_ctx_, actv_stm_idx_, frame_, pkt_,
          sws_ctx_map_, allocs, out, ret, n_true, n_err, sent, requested, n_sws, n_set>>

(***************************************************************************)
(* Bounds of the model.                                                    *)
(***************************************************************************)
MaxPackets == 2      \* packets in a container
MaxSetCalls == 1     \* SetVideoStream calls after construction

NULL == [null |-> TRUE]            \* the null pointer
GARBAGE == [garbage |-> TRUE]      \* a pointer read through an invalid iterator

(***************************************************************************)
(* Values of the native library.                                           *)
(***************************************************************************)
AVMEDIA_TYPE_VIDEO == "video"
AVMEDIA_TYPE_AUDIO == "audio"
\* DLDataType: [code, bits, lanes] (line 28), compared field by field.
kUInt8 == [code |-> "uint", bits |-> 8, lanes |-> 1]
kUInt16 == [code |-> "uint", bits |-> 16, lanes |-> 1]
kFloat16 == [code |-> "float", bits |-> 16, lanes |-> 1]
AV_PIX_FMT_RGB24 == "RGB24"
AV_PIX_FMT_GRAY8 == "GRAY8"
AV_PIX_FMT_RGB48 == "RGB48"
AV_PIX_FMT_GRAY16 == "GRAY16"
AV_PIX_FMT_YUV420P == "YUV420P"
SWS_BILINEAR == "bilinear"
SWS_BICUBIC == "bicubic"
FATAL == [fatal |-> TRUE]     \* LOG(FATAL) or a failed CHECK: dmlc::Error is thrown

\* av_find_best_stream's answer when the container holds no stream of the type.
AVERROR_STREAM_NOT_FOUND == -2

(***************************************************************************)
(* FrameTransform::FrameTransform: the descriptor, or FATAL.               *)
(***************************************************************************)
\* The constructor without the CHECK of line 16.
FrameTransform_AnyChannel(dtype, h, w, c, interp) ==
    IF dtype \in {kUInt8, kUInt16, kFloat16}
    THEN [height |-> h, width |-> w, channel |-> c, interp |-> interp,
          fmt |-> IF dtype = kUInt8
                  THEN (IF c = 3 THEN AV_PIX_FMT_RGB24 ELSE AV_PIX_FMT_GRAY8)
                  ELSE (IF c = 3 THEN AV_PIX_FMT_RGB48 ELSE AV_PIX_FMT_GRAY16)]
    ELSE FATAL

FrameTransform(dtype, h, w, c, interp) ==
    IF ~(c = 3 \/ c = 1) THEN FATAL
    ELSE IF dtype = kUInt8
         THEN [height |-> h, width |-> w, channel |-> c, interp |-> interp,
               fmt |-> IF c = 3 THEN AV_PIX_FMT_RGB24 ELSE AV_PIX_FMT_GRAY8]
    ELSE IF dtype = kUInt16
         THEN [height |-> h, width |-> w, channel |-> c, interp |-> interp,
               fmt |-> IF c = 3 THEN AV_PIX_FMT_RGB48 ELSE AV_PIX_FMT_GRAY16]
    ELSE IF dtype = kFloat16
         THEN [height |-> h, width |-> w, channel |-> c, interp |-> interp,
               fmt |-> IF c = 3 THEN AV_PIX_FMT_RGB48 ELSE AV_PIX_FMT_GRAY16]
    ELSE FATAL

\* The output formats the callers of this model ask for.
Descriptors ==
    {FrameTransform(dt, 64, 64, c, SWS_BILINEAR) : dt \in {kUInt8}, c \in {1, 3}}

(***************************************************************************)
(* The containers: their streams, packets, decoder delay and best stream.  *)
(***************************************************************************)
\* A stream: its media type and its codec id's registered decoder (NULL: none).
StreamKinds ==
    { [codec_type |-> AVMEDIA_TYPE_VIDEO, decoder |-> [name |-> "h264"],
       width |-> 320, height |-> 240, format |-> AV_PIX_FMT_YUV420P],
      [codec_type |-> AVMEDIA_TYPE_VIDEO, decoder |-> NULL,
       width |-> 160, height |-> 120, format |-> AV_PIX_FMT_YUV420P],
      [codec_type |-> AVMEDIA_TYPE_AUDIO, decoder |-> [name |-> "aac"],
       width |-> 0, height |-> 0, format |-> "s16"] }

StreamLayouts ==
    {<<k>> : k \in StreamKinds} \cup {<<k1, k2>> : k1 \in StreamKinds, k2 \in StreamKinds}

\* The pictures a decoder holds back before it emits the first: none (every packet
\* of an intra-only stream completes a frame) or one (a stream with reordering).
Delays == {0, 1}

SeqsUpTo(S, n) == UNION {[1..k -> S] : k \in 0..n}

\* A packet, as far as the reader looks at it: its stream.
Packets(streams) == [stream_index : 0..(Len(streams) - 1)]

VideoStreams(streams) ==
    {i \in 0..(Len(streams) - 1) : streams[i + 1].codec_type = AVMEDIA_TYPE_VIDEO}

\* What av_find_best_stream(fmt_ctx_, AVMEDIA_TYPE_VIDEO, -1, -1, NULL, 0) may answer.
BestStreams(streams) ==
    IF VideoStreams(streams) = {} THEN {AVERROR_STREAM_NOT_FOUND} ELSE VideoStreams(streams)

Containers ==
    UNION {[streams : {s}, delay : Delays, best : BestStreams(s)] : s \in StreamLayouts}

nb_streams == Len(container.streams)

Init ==
    /\ container \in Containers
    /\ read = <<>>
    /\ eof = FALSE
    /\ status = "new"
    /\ fmt_ctx_ = NULL
    /\ codecs_ = <<>>
    /\ dec_ctx_ = NULL
    /\ actv_stm_idx_ = -1
    /\ frame_ = NULL
    /\ pkt_ = NULL
    /\ sws_ctx_map_ = <<>>
    /\ allocs = {}
    /\ out = "unwritten"
    /\ ret = [op |-> "none", arg |-> NULL, how |-> "returned", val |-> NULL]
    /\ n_true = 0
    /\ n_err = 0
    /\ sent = <<>>
    /\ requested = {}
    /\ n_sws = 0
    /\ n_set = 0

(***************************************************************************)
(* FrameTransform on its own: a caller constructs one descriptor.  The     *)
(* arguments are on record in ret (how = "called") until the constructor   *)
(* has run; no reader is involved.                                         *)
(***************************************************************************)
MaxChannel == 4      \* the channel counts asked for: 0..MaxChannel

DTypes == [code : {"int", "uint", "float"}, bits : {8, 16, 32}, lanes : {1, 2}]
Sizes == {64, 128}
Interps == {SWS_BILINEAR, SWS_BICUBIC}

FrameTransformArgs ==
    [dtype : DTypes, h : Sizes, w : Sizes, c : 0..MaxChannel, interp : Interps]

InitFT ==
    /\ container \in {k \in Containers : Len(k.streams) = 1}    \* never opened
    /\ read = <<>>
    /\ eof = FALSE
    /\ status = "new"
    /\ fmt_ctx_ = NULL
    /\ codecs_ = <<>>
    /\ dec_ctx_ = NULL
    /\ actv_stm_idx_ = -1
    /\ frame_ = NULL
    /\ pkt_ = NULL
    /\ sws_ctx_map_ = <<>>
    /\ allocs = {}
    /\ out = "unwritten"
    /\ \E a \in FrameTransformArgs :
          ret = [op |-> "FrameTransform", arg |-> a, how |-> "called", val |-> NULL]
    /\ n_true = 0
    /\ n_err = 0
    /\ sent = <<>>
    /\ requested = {}
    /\ n_sws = 0
    /\ n_set = 0

NewFrameTransform ==
    /\ ret.op = "FrameTransform" /\ ret.how = "called"
    /\ LET a == ret.arg
           d == FrameTransform(a.dtype, a.h, a.w, a.c, a.interp)
       IN  ret' = IF d = FATAL THEN [ret EXCEPT !.how = "threw"]
                  ELSE [ret EXCEPT !.how = "returned", !.val = d]
    /\ UNCHANGED <<container, read, eof, status, fmt_ctx_, codecs_, dec_ctx_, actv_stm_idx_,
                   frame_, pkt_, sws_ctx_map_, allocs, out, n_true, n_err, sent, requested,
                   n_sws, n_set>>

NextFT == NewFrameTransform

SpecFT == InitFT /\ [][NextFT]_vars

(***************************************************************************)
(* The native library's calls, as far as the reader depends on them.  An   *)
(* env argument names the one call that fails for want of a resource       *)
(* ("none": no call does).                                                 *)
(***************************************************************************)
\* avcodec_find_decoder per stream, kept for video streams only (lines 52-62).
StoreCodecs(streams) ==
    [i \in 1..Len(streams) |->
        IF streams[i].codec_type = AVMEDIA_TYPE_VIDEO THEN streams[i].decoder ELSE NULL]

av_find_best_stream(fmt) == IF fmt = NULL THEN AVERROR_STREAM_NOT_FOUND ELSE container.best

\* avcodec_alloc_context3(codec): a fresh, unopened context, or NULL.
avcodec_alloc_context3(codec, live, env) ==
    IF env = "alloc" THEN NULL
    ELSE [id |-> Cardinality(live) + 1, codec |-> codec, stream |-> -1,
          width |-> 0, height |-> 0, pix_fmt |-> "none", opened |-> FALSE, fed |-> 0]

\* avcodec_parameters_to_context: < 0 on failure, else the context carries the
\* stream's parameters.
avcodec_parameters_to_context(ctx, st_nb, env) ==
    IF env = "params" THEN [rc |-> -1, ctx |-> ctx]
    ELSE LET par == container.streams[st_nb + 1]
         IN  [rc |-> 0, ctx |-> [ctx EXCEPT !.stream = st_nb, !.width = par.width,
                                            !.height = par.height, !.pix_fmt = par.format]]

\* avcodec_open2 taken to open a context whether or not a codec is given.
avcodec_open2_AnyCodec(ctx, codec, env) ==
    IF env = "open" THEN [rc |-> -1, ctx |-> [ctx EXCEPT !.codec = NULL]]
    ELSE [rc |-> 0, ctx |-> [ctx EXCEPT !.opened = TRUE]]

\* avcodec_open2(ctx, codec, NULL): fails without a codec, or for want of a resource;
\* a context it failed to open is left without its codec.
avcodec_open2(ctx, codec, env) ==
    IF codec = NULL \/ env = "open" THEN [rc |-> -1, ctx |-> [ctx EXCEPT !.codec = NULL]]
    ELSE [rc |-> 0, ctx |-> [ctx EXCEPT !.opened = TRUE]]

(***************************************************************************)
(* FFMPEGVideoReader::SetVideoStream(stream_nb): the fields it leaves and  *)
(* whether it threw.  stream_nb is only printed.                           *)
(***************************************************************************)
SetVideoStreamRun(stream_nb, fmt, codecs, dec, actv, live, env) ==
    LET st_nb == av_find_best_stream(fmt)
        keep == [fatal |-> TRUE, dec_ctx_ |-> dec, actv_stm_idx_ |-> actv, allocs |-> live]
    IN  IF fmt = NULL THEN keep
        ELSE IF ~(st_nb >= 0) THEN keep
        ELSE LET c0 == avcodec_alloc_context3(codecs[st_nb + 1], live, env)
                 live1 == IF c0 = NULL THEN live ELSE live \cup {c0.id}
             IN  IF c0 = NULL
                 THEN [keep EXCEPT !.dec_ctx_ = NULL]
                 ELSE LET p == avcodec_parameters_to_context(c0, st_nb, env)
                      IN  IF ~(p.rc >= 0)
                          THEN [keep EXCEPT !.dec_ctx_ = p.ctx, !.allocs = live1]
                          ELSE LET o == avcodec_open2(p.ctx, codecs[st_nb + 1], env)
                               IN  IF ~(o.rc >= 0)
                                   THEN [keep EXCEPT !.dec_ctx_ = o.ctx, !.allocs = live1]
                                   ELSE [fatal |-> FALSE, dec_ctx_ |-> o.ctx,
                                         actv_stm_idx_ |-> st_nb, allocs |-> live1]

SetEnvs == {"none", "alloc", "params", "open"}
CtorEnvs == SetEnvs \cup {"fmt_alloc", "open_input", "stream_info", "frame_alloc", "pkt_alloc"}

Return(op, arg, how, val) == [op |-> op, arg |-> arg, how |-> how, val |-> val]

(***************************************************************************)
(* FFMPEGVideoReader::FFMPEGVideoReader(fn).                               *)
(***************************************************************************)
Construct(env) ==
    /\ status = "new"
    /\ LET opened == ~(env \in {"fmt_alloc", "open_input", "stream_info"})
           fmt == IF env \in {"fmt_alloc", "open_input"} THEN NULL ELSE [pos |-> 0]
           codecs == IF opened THEN StoreCodecs(container.streams) ELSE <<>>
           s == SetVideoStreamRun(-1, fmt, codecs, dec_ctx_, actv_stm_idx_, allocs, env)
           selected == opened /\ ~s.fatal
           frame == IF selected /\ env # "frame_alloc" THEN [pic |-> 0] ELSE NULL
           pkt == IF selected /\ frame # NULL /\ env # "pkt_alloc"
                  THEN [payload |-> 0] ELSE NULL
           done == selected /\ frame # NULL /\ pkt # NULL
       IN  /\ fmt_ctx_' = fmt
           /\ codecs_' = codecs
           /\ dec_ctx_' = IF opened THEN s.dec_ctx_ ELSE dec_ctx_
           /\ actv_stm_idx_' = IF opened THEN s.actv_stm_idx_ ELSE actv_stm_idx_
           /\ allocs' = IF opened THEN s.allocs ELSE allocs
           /\ frame_' = frame
           /\ pkt_' = pkt
           /\ status' = IF done THEN "ready" ELSE "failed"
           /\ ret' = Return("Construct", NULL, IF done THEN "returned" ELSE "threw", NULL)
    /\ UNCHANGED <<container, read, eof, sws_ctx_map_, out, n_true, n_err, sent, requested,
                   n_sws, n_set>>

(***************************************************************************)
(* SetVideoStream(stream_nb) on a constructed reader.                      *)
(***************************************************************************)
StreamArgs == -1..nb_streams     \* nb_streams itself is out of range

SetVideoStream(stream_nb, env) ==
    /\ status = "ready"
    /\ n_set < MaxSetCalls
    /\ LET s == SetVideoStreamRun(stream_nb, fmt_ctx_, codecs_, dec_ctx_, actv_stm_idx_,
                                  allocs, env)
       IN  /\ dec_ctx_' = s.dec_ctx_
           /\ actv_stm_idx_' = s.actv_stm_idx_
           /\ allocs' = s.allocs
           /\ ret' = Return("SetVideoStream", stream_nb,
                            IF s.fatal THEN "threw" ELSE "returned", NULL)
    /\ n_set' = n_set + 1
    /\ UNCHANGED <<container, read, eof, status, fmt_ctx_, codecs_, frame_, pkt_, sws_ctx_map_, out,
                   n_true, n_err, sent, requested, n_sws>>

(***************************************************************************)
(* A crash (a signal from an invalid read) ends the process: the reader and *)
(* all it held are gone, and only the call that crashed is on record (val  *)
(* is a filler of the call's return type).                                 *)
(***************************************************************************)
Gone(op, arg, val) ==
    /\ status' = "crashed"
    /\ ret' = Return(op, arg, "crashed", val)
    /\ read' = <<>>
    /\ eof' = FALSE
    /\ fmt_ctx_' = NULL
    /\ codecs_' = <<>>
    /\ dec_ctx_' = NULL
    /\ actv_stm_idx_' = -1
    /\ frame_' = NULL
    /\ pkt_' = NULL
    /\ sws_ctx_map_' = <<>>
    /\ allocs' = {}
    /\ out' = "unwritten"
    /\ n_true' = 0
    /\ n_err' = 0
    /\ sent' = <<>>
    /\ requested' = {}
    /\ n_sws' = 0
    /\ n_set' = 0
    /\ UNCHANGED container

(***************************************************************************)
(* FFMPEGVideoReader::QueryStreams(): logs every stream.  For a video      *)
(* stream it reads codec->name through codecs_[i]; with a null handle      *)
(* that read is undefined: the process crashes or a garbage name is        *)
(* logged.  The ways the call can end: [crash, fatal, val].                 *)
(***************************************************************************)
QueryStreamsRuns(fmt, codecs) ==
    IF fmt = NULL THEN {[crash |-> FALSE, fatal |-> TRUE, val |-> 0]}
    ELSE IF \E i \in 1..nb_streams :
                /\ container.streams[i].codec_type = AVMEDIA_TYPE_VIDEO
                /\ codecs[i] = NULL
         THEN {[crash |-> TRUE, fatal |-> FALSE, val |-> 0],
               [crash |-> FALSE, fatal |-> FALSE, val |-> nb_streams]}
         ELSE {[crash |-> FALSE, fatal |-> FALSE, val |-> nb_streams]}

QueryStreams ==
    /\ status = "ready"
    /\ \E o \in QueryStreamsRuns(fmt_ctx_, codecs_) :
          IF o.crash THEN Gone("QueryStreams", NULL, 0)
          ELSE /\ ret' = Return("QueryStreams", NULL,
                                IF o.fatal THEN "threw" ELSE "returned", o.val)
               /\ UNCHANGED <<container, read, eof, status, fmt_ctx_, codecs_, dec_ctx_,
                              actv_stm_idx_, frame_, pkt_, sws_ctx_map_, allocs, out,
                              n_true, n_err, sent, requested, n_sws, n_set>>

(***************************************************************************)
(* FFMPEGVideoReader::GetSwsContext(out_fmt).                              *)
(***************************************************************************)
\* sws_getContext(srcW, srcH, srcFormat, dstW, dstH, dstFormat, flags, ...): a new
\* context, or NULL when the library cannot build it.
sws_getContext(srcW, srcH, srcFormat, dstW, dstH, dstFormat, flags, n) ==
    { NULL,
      [id |-> n + 1, srcW |-> srcW, srcH |-> srcH, srcFormat |-> srcFormat,
       dstW |-> dstW, dstH |-> dstH, dstFormat |-> dstFormat, flags |-> flags] }

\* The test of line 149: find() answered end().
NotFound(m, out_fmt) == out_fmt \notin DOMAIN m

\* The outcomes of one call: [crash, ctx, map, n_sws].  When find() answered end(),
\* line 151 reads sws_ctx->second through the end iterator: undefined, the process
\* crashes or some pointer comes back; nothing is built or inserted.  Otherwise the
\* else branch builds a context and stores it under out_fmt.
GetSwsContextRuns(m, out_fmt, dec, n) ==
    IF NotFound(m, out_fmt)
    THEN { [crash |-> TRUE, ctx |-> NULL, map |-> m, n_sws |-> n],
           [crash |-> FALSE, ctx |-> GARBAGE, map |-> m, n_sws |-> n] }
    ELSE IF dec = NULL
         THEN { [crash |-> TRUE, ctx |-> NULL, map |-> m, n_sws |-> n] }
         ELSE { [crash |-> FALSE, ctx |-> ctx,
                  map |-> [k \in DOMAIN m |-> IF k = out_fmt THEN ctx ELSE m[k]],
                  n_sws |-> n + 1]
                 : ctx \in sws_getContext(dec.width, dec.height, dec.pix_fmt, out_fmt.width,
                                          out_fmt.height, out_fmt.fmt, out_fmt.interp, n) }

GetSwsContext(out_fmt) ==
    /\ status = "ready"
    /\ \E o \in GetSwsContextRuns(sws_ctx_map_, out_fmt, dec_ctx_, n_sws) :
          IF o.crash THEN Gone("GetSwsContext", out_fmt, NULL)
          ELSE /\ sws_ctx_map_' = o.map
               /\ n_sws' = o.n_sws
               /\ ret' = Return("GetSwsContext", out_fmt, "returned", o.ctx)
               /\ requested' = requested \cup {out_fmt}
               /\ UNCHANGED <<container, read, eof, status, fmt_ctx_, codecs_, dec_ctx_,
                              actv_stm_idx_, frame_, pkt_, allocs, out, n_true, n_err, sent,
                              n_set>>

(***************************************************************************)
(* FFMPEGVideoReader::NextFrame(arr, dtype).                               *)
(***************************************************************************)
\* avcodec_decode_video2(dec_ctx_, frame_, &got_picture, pkt_): the outcomes
\* [crash, err, got, dec, frame].  An opened decoder either takes the packet, and
\* answers with a picture once it holds more than container.delay of them, or
\* finds it damaged and answers with an error and got_picture = 0.  A context
\* that was never opened is outside the library's contract: the call crashes on
\* the state avcodec_open2 would have set up, or, when the context has no codec,
\* returns an error before it sets got_picture, which line 136 then reads
\* uninitialised.
avcodec_decode_video2(dec, frame, p) ==
    LET end(crash, err, got, d, f) ==
            [crash |-> crash, err |-> err, got |-> got, dec |-> d, frame |-> f]
    IN  IF dec = NULL THEN {end(TRUE, FALSE, FALSE, dec, frame)}
        ELSE IF ~dec.opened
        THEN IF dec.codec # NULL THEN {end(TRUE, FALSE, FALSE, dec, frame)}
             ELSE {end(TRUE, FALSE, FALSE, dec, frame), end(FALSE, TRUE, TRUE, dec, frame),
                   end(FALSE, TRUE, FALSE, dec, frame)}
        ELSE LET fed == dec.fed + 1
                 got == fed > container.delay
             IN  {end(FALSE, TRUE, FALSE, dec, frame),
                  end(FALSE, FALSE, got, [dec EXCEPT !.fed = fed],
                      IF got THEN [pic |-> fed - container.delay] ELSE frame)}

\* The test of line 132 left out: every packet goes to the decoder.
IsActive_AnyStream(p, actv) == TRUE

\* The test of line 132.
IsActive(p, actv) == p.stream_index = actv

\* The loop of lines 131-144 over pkts, the packets av_read_frame has yet to
\* deliver, from the i-th on; st = [dec, frame, pkt, sent, n_err, map, n_sws, req]:
\* the fields so far, and base the number of packets read before this call.  The
\* outcomes: [ret, n, st], ret one of "true", "false", "crash" and n the number
\* of packets read.  Nothing is converted and arr is not written.  av_read_frame
\* sets pkt_ to refer to the payload of the packet it delivers (payload: the
\* packet's position, 0: none) and leaves it blank when it fails; the loop never
\* unreferences it.
RECURSIVE ReadLoop(_, _, _, _, _, _)
ReadLoop(pkts, i, st, actv, out_fmt, base) ==
    IF i >= Len(pkts)
    THEN {[ret |-> "false", n |-> i, st |-> [st EXCEPT !.pkt = [payload |-> 0]]]}
    ELSE LET p == pkts[i + 1]
             st1 == [st EXCEPT !.pkt = [payload |-> base + i + 1]]
         IN  IF IsActive(p, actv)
             THEN UNION {
                    LET st2 == [st1 EXCEPT !.dec = o.dec, !.frame = o.frame,
                                           !.sent = Append(st.sent, base + i + 1),
                                           !.n_err = IF o.err THEN @ + 1 ELSE @]
                    IN  IF o.crash THEN {[ret |-> "crash", n |-> i + 1, st |-> st2]}
                        ELSE IF o.got
                        THEN {[ret |-> IF g.crash THEN "crash" ELSE "true", n |-> i + 1,
                               st |-> [st2 EXCEPT !.map = g.map, !.n_sws = g.n_sws,
                                                  !.req = st.req \cup {out_fmt}]]
                                : g \in GetSwsContextRuns(st.map, out_fmt, o.dec, st.n_sws)}
                        ELSE ReadLoop(pkts, i + 1, st2, actv, out_fmt, base)
                    : o \in avcodec_decode_video2(st.dec, st.frame, p)}
             ELSE ReadLoop(pkts, i + 1, st1, actv, out_fmt, base)

\* The whole call: lines 125-129 read dec_ctx_ when no array is given.
NextFrameRuns(arr, out_fmt, pkts, st, actv, base) ==
    IF arr = NULL /\ st.dec = NULL
    THEN {[ret |-> "crash", n |-> 0, st |-> st]}
    ELSE ReadLoop(pkts, 0, st, actv, out_fmt, base)

Fields == [dec |-> dec_ctx_, frame |-> frame_, pkt |-> pkt_, sent |-> sent, n_err |-> n_err,
           map |-> sws_ctx_map_, n_sws |-> n_sws, req |-> requested]

\* The packets the file may still hold.
Rest == IF eof THEN {<<>>}
        ELSE SeqsUpTo(Packets(container.streams), MaxPackets - Len(read))

Arrays == {NULL, [shape |-> "given"]}

NextFrame(arr, out_fmt, pkts) ==
    /\ status = "ready"
    /\ \E o \in NextFrameRuns(arr, out_fmt, pkts, Fields, actv_stm_idx_, Len(read)) :
          /\ o.n = Len(pkts)      \* pkts are the packets this call read
          /\ IF o.ret = "crash" THEN Gone("NextFrame", NULL, FALSE)
             ELSE /\ read' = read \o pkts
                  /\ eof' = (eof \/ o.ret = "false")
                  /\ fmt_ctx_' = [pos |-> Len(read) + o.n]
                  /\ dec_ctx_' = o.st.dec
                  /\ frame_' = o.st.frame
                  /\ pkt_' = o.st.pkt
                  /\ sent' = o.st.sent
                  /\ n_err' = o.st.n_err
                  /\ sws_ctx_map_' = o.st.map
                  /\ n_sws' = o.st.n_sws
                  /\ requested' = o.st.req
                  /\ n_true' = IF o.ret = "true" THEN n_true + 1 ELSE n_true
                  /\ ret' = Return("NextFrame", NULL, "returned", o.ret = "true")
                  /\ UNCHANGED <<container, status, codecs_, actv_stm_idx_, allocs, out,
                                 n_set>>

Next ==
    \/ \E env \in CtorEnvs : Construct(env)
    \/ \E n \in StreamArgs, env \in SetEnvs : SetVideoStream(n, env)
    \/ QueryStreams
    \/ \E d \in Descriptors : GetSwsContext(d)
    \/ \E arr \in Arrays, d \in Descriptors, pkts \in Rest : NextFrame(arr, d, pkts)

Spec == Init /\ [][Next]_vars

(***************************************************************************)
(* What the statements below speak of.                                     *)
(***************************************************************************)
Ready == status = "ready"

Returned(op) == ret.op = op /\ ret.how = "returned"

\* The positions of the packets of stream actv among those read, in file order.
ActivePositions(actv) ==
    LET Test(i) == read[i].stream_index = actv
    IN  SelectSeq([i \in 1..Len(read) |-> i], Test)

\* The frames the active stream holds in the part of the file read so far: one
\* per packet.
N == Len(ActivePositions(actv_stm_idx_))

\* pkts without the packets of the streams other than actv.
WithoutOthers(pkts, actv) ==
    LET Test(p) == p.stream_index = actv
    IN  SelectSeq(pkts, Test)

\* What a NextFrame call leaves, apart from the count and positions of the
\* packets it read.
Effect(o) == [ret |-> o.ret, dec |-> o.st.dec, frame |-> o.st.frame, n_err |-> o.st.n_err,
              map |-> o.st.map, n_sws |-> o.st.n_sws, req |-> o.st.req]

(***************************************************************************)
(* C1: within a session, a GetSwsContext call for a descriptor requested   *)
(* earlier returns the context cached for it, the one the first request    *)
(* returned, and sws_getContext has run at most once per distinct          *)
(* descriptor.  Stated of every step that is such a call.                  *)
(***************************************************************************)
C1_SameContextAgain ==
    [][(/\ ret'.op = "GetSwsContext"
        /\ ret'.arg \in requested)
       => (/\ ret'.how = "returned"
           /\ ret'.arg \in DOMAIN sws_ctx_map_
           /\ ret'.val = sws_ctx_map_[ret'.arg]
           /\ n_sws' = n_sws
           /\ n_sws' <= Cardinality(requested'))]_vars

(***************************************************************************)
(* C2: when NextFrame has reported the end of a container whose active     *)
(* stream holds N frames, on a reader whose stream was selected once and   *)
(* whose decoder reported no error, it has returned true exactly N times,  *)
(* never more than N times before, and false on every call since.          *)
(***************************************************************************)
C2_TrueExactlyNTimes ==
    (Ready /\ n_err = 0 /\ n_set = 0)
        => (/\ n_true <= N
            /\ eof => n_true = N
            /\ (eof /\ Returned("NextFrame")) => ret.val = FALSE)

(***************************************************************************)
(* C3: when NextFrame has returned true, the output array holds the        *)
(* decoded frame, converted with a context GetSwsContext gave for the      *)
(* output descriptor.                                                      *)
(***************************************************************************)
C3_TrueMeansConverted ==
    (Returned("NextFrame") /\ ret.val = TRUE)
        => (/\ out # "unwritten"
            /\ requested # {}
            /\ requested \subseteq DOMAIN sws_ctx_map_)

(***************************************************************************)
(* C4: a GetSwsContext call for a descriptor that is not in the cache      *)
(* builds one context from the decoder's width, height and pixel format    *)
(* and the descriptor's, stores it under the descriptor, returns it and    *)
(* leaves the other entries as they were.                                  *)
(***************************************************************************)
C4_MissBuildsAndInserts ==
    [][(/\ ret'.op = "GetSwsContext"
        /\ Ready
        /\ ret'.arg \notin DOMAIN sws_ctx_map_)
       => (/\ ret'.how = "returned"
           /\ dec_ctx_ # NULL
           /\ n_sws' = n_sws + 1
           /\ DOMAIN sws_ctx_map_' = DOMAIN sws_ctx_map_ \cup {ret'.arg}
           /\ sws_ctx_map_'[ret'.arg] = ret'.val
           /\ ret'.val = [id |-> n_sws', srcW |-> dec_ctx_.width, srcH |-> dec_ctx_.height,
                          srcFormat |-> dec_ctx_.pix_fmt, dstW |-> ret'.arg.width,
                          dstH |-> ret'.arg.height, dstFormat |-> ret'.arg.fmt,
                          flags |-> ret'.arg.interp]
           /\ \A k \in DOMAIN sws_ctx_map_ : sws_ctx_map_'[k] = sws_ctx_map_[k])]_vars

(***************************************************************************)
(* C5: the cache holds exactly one entry per descriptor requested so far,  *)
(* and distinct descriptors have distinct contexts.                        *)
(***************************************************************************)
C5_OneEntryPerDescriptor ==
    Ready => (/\ DOMAIN sws_ctx_map_ = requested
              /\ \A d1, d2 \in DOMAIN sws_ctx_map_ :
                    d1 # d2 => sws_ctx_map_[d1] # sws_ctx_map_[d2])

(***************************************************************************)
(* C6: once NextFrame has reported the end of the container, every later   *)
(* NextFrame call returns false, without an error, and leaves the active   *)
(* stream index, the decoder context and the cache as they were.           *)
(***************************************************************************)
C6_EndOfStreamIdempotent ==
    [][(eof /\ ret'.op = "NextFrame")
       => (/\ ret'.how = "returned"
           /\ ret'.val = FALSE
           /\ UNCHANGED <<actv_stm_idx_, dec_ctx_, sws_ctx_map_>>)]_vars

(***************************************************************************)
(* C7: only packets of the active stream reach the decoder, all of them in *)
(* file order; a call returns true only on a packet of the active stream;  *)
(* and whatever packets the file still holds, a NextFrame call ends as it  *)
(* would with the packets of the other streams taken out of the file.      *)
(***************************************************************************)
C7_OtherStreamsSkipped ==
    Ready =>
        /\ sent = ActivePositions(actv_stm_idx_)
        /\ \A arr \in Arrays, d \in Descriptors, pkts \in Rest :
              LET runs == NextFrameRuns(arr, d, pkts, Fields, actv_stm_idx_, Len(read))
                  bare == NextFrameRuns(arr, d, WithoutOthers(pkts, actv_stm_idx_), Fields,
                                        actv_stm_idx_, Len(read))
              IN  /\ {Effect(o) : o \in runs} = {Effect(o) : o \in bare}
                  /\ \A o \in runs :
                        o.ret = "true" => pkts[o.n].stream_index = actv_stm_idx_

\* A call has returned true after it skipped a packet of another stream.
C7_Witness ==
    /\ Ready
    /\ Returned("NextFrame") /\ ret.val = TRUE
    /\ Len(read) >= 2
    /\ read[Len(read) - 1].stream_index # actv_stm_idx_
    /\ read[Len(read)].stream_index = actv_stm_idx_

(***************************************************************************)
(* C8: a SetVideoStream(n) call with n >= 0 that returns has selected      *)
(* stream n, a video stream in range with a decoder; for other n >= 0 it   *)
(* throws.                                                                 *)
(***************************************************************************)
C8_ExplicitIndexSelected ==
    (ret.op = "SetVideoStream" /\ ret.how = "returned" /\ ret.arg >= 0)
        => (/\ ret.arg < nb_streams
            /\ container.streams[ret.arg + 1].codec_type = AVMEDIA_TYPE_VIDEO
            /\ codecs_[ret.arg + 1] # NULL
            /\ actv_stm_idx_ = ret.arg)

(***************************************************************************)
(* C9: a SetVideoStream call that throws leaves dec_ctx_ and actv_stm_idx_ *)
(* as they were before the call.                                           *)
(***************************************************************************)
C9_FailedSelectionKeepsState ==
    [][(n_set' = n_set + 1 /\ ret'.how = "threw")
       => UNCHANGED <<dec_ctx_, actv_stm_idx_>>]_vars

(***************************************************************************)
(* C10: the active stream index is -1, or the index of a video stream with *)
(* a decoder in codecs_ for which dec_ctx_ is a context opened with that   *)
(* stream's parameters.                                                    *)
(***************************************************************************)
C10_ActiveStreamIsOpenVideo ==
    \/ actv_stm_idx_ = -1
    \/ /\ actv_stm_idx_ \in 0..(nb_streams - 1)
       /\ container.streams[actv_stm_idx_ + 1].codec_type = AVMEDIA_TYPE_VIDEO
       /\ codecs_[actv_stm_idx_ + 1] # NULL
       /\ dec_ctx_ # NULL
       /\ dec_ctx_.opened
       /\ dec_ctx_.stream = actv_stm_idx_

(***************************************************************************)
(* C11: the constructor either throws, and no reader exists, or leaves a   *)
(* reader whose fmt_ctx_, dec_ctx_, frame_ and pkt_ are non-null and whose *)
(* actv_stm_idx_ is >= 0; on a container without a video stream that has a *)
(* decoder it throws, so NextFrame is never called on such a container.    *)
(***************************************************************************)
Decodable ==
    {i \in VideoStreams(container.streams) : container.streams[i + 1].decoder # NULL}

C11_ConstructedOrFailed ==
    /\ ret.op = "Construct" =>
          \/ ret.how = "threw" /\ status = "failed"
          \/ /\ ret.how = "returned" /\ status = "ready"
             /\ fmt_ctx_ # NULL /\ dec_ctx_ # NULL /\ frame_ # NULL /\ pkt_ # NULL
             /\ actv_stm_idx_ >= 0
    /\ status = "failed" => ~ENABLED (\E arr \in Arrays, d \in Descriptors, pkts \in Rest :
                                         NextFrame(arr, d, pkts))
    /\ Decodable = {} => status \in {"new", "failed"}

\* The constructor has returned a reader for a container that also holds a stream
\* without a decoder.
C11_Witness ==
    /\ ret.op = "Construct" /\ ret.how = "returned"
    /\ Decodable # {}
    /\ \E i \in VideoStreams(container.streams) : container.streams[i + 1].decoder = NULL

(***************************************************************************)
(* C12: FrameTransform's constructor returns exactly when the channel      *)
(* count is 1 or 3 and the dtype is uint8, uint16 or float16, and throws   *)
(* otherwise; the descriptor it returns holds the height, width, channel   *)
(* count and interpolation given and the layout RGB24 (3 channels) or      *)
(* GRAY8 (1) for uint8, RGB48 (3) or GRAY16 (1) for uint16 and float16.    *)
(***************************************************************************)
C12_SupportedCombinations ==
    (ret.op = "FrameTransform" /\ ret.how # "called") =>
        LET a == ret.arg
            supported == a.c \in {1, 3} /\ a.dtype \in {kUInt8, kUInt16, kFloat16}
            layout == IF a.dtype = kUInt8
                      THEN (IF a.c = 3 THEN AV_PIX_FMT_RGB24 ELSE AV_PIX_FMT_GRAY8)
                      ELSE (IF a.c = 3 THEN AV_PIX_FMT_RGB48 ELSE AV_PIX_FMT_GRAY16)
        IN  /\ ret.how = (IF supported THEN "returned" ELSE "threw")
            /\ supported => ret.val = [height |-> a.h, width |-> a.w, channel |-> a.c,
                                        interp |-> a.interp, fmt |-> layout]

\* A float16 descriptor with one channel has been constructed: GRAY16.
C12_Witness ==
    /\ ret.op = "FrameTransform" /\ ret.how = "returned"
    /\ ret.arg.dtype = kFloat16 /\ ret.arg.c = 1
    /\ ret.val.fmt = AV_PIX_FMT_GRAY16

(***************************************************************************)
(* C14: over the NextFrame calls of a reader, the packets of the active    *)
(* stream go to the decoder in the order read, each exactly once; a call   *)
(* that returns true has read no packet after the one that completed the   *)
(* frame, the next call starts at the packet after it, and every frame the *)
(* decoder completes is reported by the call that submitted its last       *)
(* packet, so the k-th true reports the k-th completed frame.              *)
(***************************************************************************)
\* The frames decoder context dec has completed.
Completed(dec) ==
    IF dec # NULL /\ dec.opened /\ dec.fed > container.delay
    THEN dec.fed - container.delay ELSE 0

C14_InOrderExactlyOnce ==
    [][(ret'.op = "NextFrame" /\ ret'.how = "returned")
       => (/\ sent' = ActivePositions(actv_stm_idx_)'
           /\ fmt_ctx_'.pos = Len(read')
           /\ Completed(dec_ctx_') - Completed(dec_ctx_) = (IF ret'.val THEN 1 ELSE 0)
           /\ ret'.val => (/\ sent' # <<>>
                           /\ sent'[Len(sent')] = Len(read')
                           /\ frame_'.pic = Completed(dec_ctx_')))]_vars

(***************************************************************************)
(* C15: when a NextFrame call has returned, pkt_ is the one packet buffer  *)
(* the constructor allocated and refers to no payload: the payload of      *)
(* every packet read into it has been unreferenced, whether the packet was *)
(* skipped, decoded without a frame, or completed a frame.                 *)
(***************************************************************************)
C15_PacketUnreferenced ==
    (Ready /\ Returned("NextFrame")) => (pkt_ # NULL /\ pkt_.payload = 0)

(***************************************************************************)
(* C16: a QueryStreams call returns the number of streams of the container *)
(* and leaves the reader as it was: the stream list, the active stream     *)
(* index, the decoder context, the packet and frame buffers, the read      *)
(* position and the cache; whatever the file still holds, a NextFrame call *)
(* after it ends as it would have before it.                               *)
(***************************************************************************)
C16_QueryStreamsChangesNothing ==
    [][ret'.op = "QueryStreams"
       => (/\ ret'.how = "returned"
           /\ ret'.val = nb_streams
           /\ UNCHANGED <<codecs_, actv_stm_idx_, dec_ctx_, pkt_, frame_, fmt_ctx_, read, eof,
                          sws_ctx_map_>>
           /\ \A arr \in Arrays, d \in Descriptors, pkts \in Rest :
                 NextFrameRuns(arr, d, pkts, Fields, actv_stm_idx_, Len(read))'
                     = NextFrameRuns(arr, d, pkts, Fields, actv_stm_idx_, Len(read)))]_vars

(***************************************************************************)
(* C17: a NextFrame call in which the decoder answered a packet of the     *)
(* active stream with an error returns without an error, reports no frame  *)
(* for that packet and reads on: every other packet it submitted reached   *)
(* the decoder, a frame is reported only if the decoder completed one, and *)
(* if every packet it submitted was answered with an error it has read to  *)
(* the end of the file and returns false with the decoder and the frame    *)
(* buffer as they were.                                                    *)
(***************************************************************************)
C17_DecodeErrorSkipped ==
    [][(ret'.op = "NextFrame" /\ ret'.how = "returned" /\ n_err' > n_err)
       => LET k == Len(sent') - Len(sent)
              e == n_err' - n_err
          IN  /\ dec_ctx_' = [dec_ctx_ EXCEPT !.fed = @ + (k - e)]
              /\ ret'.val => (/\ e < k
                              /\ Completed(dec_ctx_') = Completed(dec_ctx_) + 1
                              /\ frame_'.pic = Completed(dec_ctx_'))
              /\ e = k => (/\ ret'.val = FALSE
                           /\ eof'
                           /\ frame_' = frame_)]_vars

(***************************************************************************)
(* C18: QueryStreams reads codec->name only through a decoder handle that  *)
(* is not null: on every container, also one with a video stream whose     *)
(* codec has no registered decoder, the call returns, having reported      *)
(* every stream.                                                           *)
(***************************************************************************)
C18_QueryStreamsCompletes ==
    ret.op = "QueryStreams"
        => (/\ ret.how = "returned"
            /\ ret.val = nb_streams
            /\ \A i \in VideoStreams(container.streams) : codecs_[i + 1] # NULL)

(***************************************************************************)
(* C19: a SetVideoStream call that returns, made when the one decoder      *)
(* context allocated and not released is the one dec_ctx_ refers to,       *)
(* leaves it so: it releases the context it replaces.                      *)
(***************************************************************************)
C19_OneDecoderContext ==
    [][(/\ ret'.op = "SetVideoStream" /\ ret'.how = "returned"
        /\ dec_ctx_ # NULL /\ allocs = {dec_ctx_.id})
       => (dec_ctx_' # NULL /\ allocs' = {dec_ctx_'.id})]_vars

====
